---- MODULE Spec2Model ----
(***************************************************************************)
(* Model of the AMP fallback handler                                       *)
(* (internal/api/modules/amp/fallback_handlers_cn.go) and of the augplus    *)
(* module's registration (internal/api/modules/augplus/augplus.go).        *)
(*                                                                         *)
(* Go strings are sequences of one-character strings; the empty Go string  *)
(* is <<>>.  A request is handled by FallbackHandler.WrapHandler, whose     *)
(* observable effects (route type, delivered body and headers, log         *)
(* records, calls made) are collected in the record `out`.                 *)
(***************************************************************************)
EXTENDS Integers, Sequences, FiniteSets, TLC

VARIABLES
    modelMapper,         \* fh.modelMapper: interface value (type word, data word)
    forceMappings,       \* what fh.forceModelMappings() returns
    proxy,               \* what fh.getProxy() returns: "nil" or "proxy"
    registry,            \* provider registry behind util.GetProviderName
    out,                 \* effects of the last request handled by WrapHandler
    pc,                  \* position of the in-flight request (SpecRace)
    inflight,            \* the in-flight request (SpecRace)
    reads,               \* values of fh.modelMapper read by the in-flight request
    store,               \* SetModelMapper store in progress (SpecRace)
    mu,                  \* augplus Module.mu: the caller holding the lock
    cfg,                 \* augplus Module.cfg
    registered,          \* augplus Module.registered
    routes,              \* how often registerRoutes ran on the engine
    calls                \* per caller: its Register or OnConfigUpdated call

ampVars == <<modelMapper, forceMappings, proxy, registry, out, pc, inflight, reads, store>>

augVars == <<mu, cfg, registered, routes, calls>>

vars == <<modelMapper, forceMappings, proxy, registry, out, pc, inflight, reads, store,
          mu, cfg, registered, routes, calls>>

----------------------------------------------------------------------------
(* Bounds *)

\* longest provider list the registry returns for a model
MaxProviders == 1

\* goroutines calling into the augplus module at the same time
NumCallers == 2

\* distinct *config.Config values passed to the augplus module
NumConfigs == 2

\* cap on the counter of registerRoutes runs
MaxRegistrations == 2

----------------------------------------------------------------------------
(* Strings *)

EmptyStr == <<>>

\* strings.Index(s, sub): 0-based index of the first occurrence, -1 if none
Index(s, sub) ==
    LET hits == {i \in 0..(Len(s) - Len(sub)) : SubSeq(s, i + 1, i + Len(sub)) = sub}
    IN  IF hits = {} THEN -1 ELSE CHOOSE i \in hits : \A j \in hits : i <= j

\* strings.LastIndex(s, sub) for a one-character sub
LastIndex(s, ch) ==
    LET hits == {i \in 0..(Len(s) - 1) : s[i + 1] = ch}
    IN  IF hits = {} THEN -1 ELSE CHOOSE i \in hits : \A j \in hits : j <= i

\* s[from:] with a 0-based from
SliceFrom(s, from) == SubSeq(s, from + 1, Len(s))

\* s[:to] with a 0-based exclusive to
SliceTo(s, to) == SubSeq(s, 1, to)

RECURSIVE TrimLeft(_)
TrimLeft(s) == IF s # <<>> /\ Head(s) = " " THEN TrimLeft(Tail(s)) ELSE s

RECURSIVE TrimRight(_)
TrimRight(s) ==
    IF s # <<>> /\ s[Len(s)] = " " THEN TrimRight(SubSeq(s, 1, Len(s) - 1)) ELSE s

\* strings.TrimSpace
TrimSpace(s) == TrimRight(TrimLeft(s))

\* thinking.ParseSuffix: a trailing "(token)" anchored at the end of the name
ParseSuffix(model) ==
    LET lastOpen == LastIndex(model, "(")
    IN  IF lastOpen = -1 \/ model[Len(model)] # ")"
        THEN [ModelName |-> model, HasSuffix |-> FALSE, RawSuffix |-> EmptyStr]
        ELSE [ModelName |-> SliceTo(model, lastOpen),
              HasSuffix |-> TRUE,
              RawSuffix |-> SubSeq(model, lastOpen + 2, Len(model) - 1)]

----------------------------------------------------------------------------
(* Model names used by the requests and the mapping tables *)

mA   == <<"a">>
mAh  == <<"a", "(", "h", ")">>
mB   == <<"b">>
mBx  == <<"b", "(", "x", ")">>
mBsp == <<" ", "b", " ">>
mSp  == <<" ">>

\* the base names the registry knows
BaseNames == {mA, mB}

\* provider lists: <<>>, <<1>>, <<1, 2>>, ...
ProviderLists == {[i \in 1..n |-> i] : n \in 0..MaxProviders}

Registries == [BaseNames -> ProviderLists]

\* util.GetProviderName(model): providers configured for a model name
GetProviderName(reg, model) ==
    IF model \in DOMAIN reg THEN reg[model] ELSE <<>>

----------------------------------------------------------------------------
(* The model mapper: an interface value of two words *)

MapKeys == {mA, mAh}

\* a mapping table: the target for "a" and the target for "a(h)"
MapTable(forA, forAh) == [n \in MapKeys |-> IF n = mA THEN forA ELSE forAh]

\* the mapper objects a caller may install, indexed by their address
Tables == <<
    MapTable(mB, EmptyStr),      \* a -> b
    MapTable(mA, EmptyStr),      \* a -> a, an identity mapping
    MapTable(mBx, EmptyStr),     \* a -> b(x), the target declares a suffix
    MapTable(mBsp, EmptyStr),    \* a -> " b ", padded with spaces
    MapTable(mSp, EmptyStr),     \* a -> " ", whitespace only
    MapTable(mA, mB),            \* a(h) -> b and a -> a
    MapTable(EmptyStr, mB),      \* a(h) -> b only
    MapTable(mB, mSp) >>         \* a(h) -> " " and a -> b

NilMapper == [typ |-> "nil", ptr |-> 0]

Mapper(p) == [typ |-> "mapper", ptr |-> p]

\* the values a caller passes to SetModelMapper or the constructor
MapperValues == {NilMapper} \cup {Mapper(p) : p \in 1..Len(Tables)}

\* `fh.modelMapper == nil`: an interface is nil when its type word is
IsNilInterface(m) == m.typ = "nil"

\* a method call through the interface needs both words
Callable(m) == m.typ = "mapper" /\ m.ptr # 0

\* ModelMapper.MapModel(name): the target, or "" when unmapped
MapModel(m, name) ==
    IF name \in MapKeys THEN Tables[m.ptr][name] ELSE EmptyStr

----------------------------------------------------------------------------
(* Requests *)

NoField  == [Exists |-> FALSE, Type |-> "Null", Str |-> EmptyStr]
StrField(s) == [Exists |-> TRUE, Type |-> "String", Str |-> s]
NumField == [Exists |-> TRUE, Type |-> "Number", Str |-> EmptyStr]

\* what gjson and sjson see of a body: whether it is well-formed JSON, its
\* top-level "model" field, its other content, whether sjson can set a field
JsonBody(field) == [valid |-> TRUE, model |-> field, rest |-> "fields", setFails |-> FALSE]
BadBody(field)  == [valid |-> FALSE, model |-> field, rest |-> "bytes", setFails |-> TRUE]

Bodies == {
    JsonBody(NoField), JsonBody(StrField(EmptyStr)), JsonBody(StrField(mA)),
    JsonBody(StrField(mAh)), JsonBody(StrField(mB)), JsonBody(NumField),
    BadBody(NoField), BadBody(StrField(mA)) }

\* c.Param("action") and c.Param("path")
actA   == <<"a", "(", "h", ")", ":", "g">>
actNone == <<":", "g">>
pathB  == <<"/", "m", "o", "d", "e", "l", "s", "/", "b", ":", "g">>
pathNone == <<"/", "m", "o", "d", "e", "l", "s", "/", ":", "g">>

Hints == {
    [action |-> EmptyStr, path |-> EmptyStr],
    [action |-> actA,     path |-> pathB],
    [action |-> actNone,  path |-> pathB],
    [action |-> EmptyStr, path |-> pathNone] }

\* the Anthropic-Beta header: absent, or its comma-separated items
NoHeader == [present |-> FALSE, items |-> <<>>]
Header(items) == [present |-> TRUE, items |-> items]

DeniedFeature == "context-1m-2025-08-07"

Headers == {
    NoHeader,
    Header(<<>>),
    Header(<<"tools-2024", DeniedFeature, "vision">>),
    Header(<<DeniedFeature>>) }

NoHint == [action |-> EmptyStr, path |-> EmptyStr]

\* the requests a client sends, with whether reading the body fails and
\* whether the downstream handler panics
Requests ==
    [body : Bodies, hint : Hints, header : Headers,
     readErr : BOOLEAN, handlerPanics : BOOLEAN]

\* the placeholder held by `out` and `inflight` while no request was handled
NoRequest ==
    [body |-> JsonBody(NoField), hint |-> NoHint, header |-> NoHeader,
     readErr |-> FALSE, handlerPanics |-> FALSE]

\* the requests and mappers of the concurrent specification
RaceRequests ==
    {r \in Requests : /\ r.body \in {JsonBody(StrField(mA)), JsonBody(StrField(mAh))}
                      /\ r.hint = NoHint /\ r.header = NoHeader
                      /\ ~r.readErr /\ ~r.handlerPanics}

RaceMappers == {NilMapper, Mapper(1), Mapper(6)}

----------------------------------------------------------------------------
(* Helpers of the handler *)

\* length of the "/models/" marker skipped by extractModelFromRequest
ModelsMarkerLen == 8

ModelsMarker == <<"/", "m", "o", "d", "e", "l", "s", "/">>

\* extractModelFromRequest(body, c): JSON "model" string field, then the
\* :action parameter, then the *path parameter; "" when none applies
extractModelFromRequest(body, action, path) ==
    IF body.model.Exists /\ body.model.Type = "String"
    THEN body.model.Str
    ELSE
      LET colonA == Index(action, <<":">>)
          part0  == IF colonA = -1 THEN action ELSE SliceTo(action, colonA)
      IN  IF action # EmptyStr /\ part0 # EmptyStr
          THEN part0
          ELSE
            LET idx       == Index(path, ModelsMarker)
                modelPart == SliceFrom(path, idx + ModelsMarkerLen)
                colonIdx  == Index(modelPart, <<":">>)
            IN  IF path # EmptyStr /\ idx >= 0 /\ colonIdx > 0
                THEN SliceTo(modelPart, colonIdx)
                ELSE EmptyStr

\* the field is set without the check that the body has one
rewriteModelInRequestAlways(body, newModel) ==
    IF body.setFails THEN body
    ELSE [body EXCEPT !.model = StrField(newModel)]

\* rewriteModelInRequest(body, newModel)
rewriteModelInRequest(body, newModel) ==
    IF ~body.model.Exists THEN body
    ELSE IF body.setFails THEN body
    ELSE [body EXCEPT !.model = StrField(newModel)]

\* filterBetaFeatures(header, featureToRemove): the items left, in order
filterBetaFeatures(items, featureToRemove) ==
    SelectSeq(items, LAMBDA f : f # "" /\ f # featureToRemove)

\* the filtered value is set even when nothing is left of it
filterAntropicBetaHeaderSetsEmpty(header) ==
    LET betaHeader == IF header.present THEN header.items ELSE <<>>
    IN  IF betaHeader # <<>>
        THEN Header(filterBetaFeatures(betaHeader, DeniedFeature))
        ELSE header

\* filterAntropicBetaHeader(c): the request's Anthropic-Beta header afterwards
filterAntropicBetaHeader(header) ==
    LET betaHeader == IF header.present THEN header.items ELSE <<>>
    IN  IF betaHeader # <<>>
        THEN LET filtered == filterBetaFeatures(betaHeader, DeniedFeature)
             IN  IF filtered # <<>> THEN Header(filtered) ELSE NoHeader
        ELSE header

RouteTypeLocalProvider == "LOCAL_PROVIDER"
RouteTypeModelMapping  == "MODEL_MAPPING"
RouteTypeAmpCredits    == "AMP_CREDITS"
RouteTypeNoProvider    == "NO_PROVIDER"

\* no provider name: Go's "" for a provider
NoProviderName == 0

\* the record carries resolved_model whatever its value
logAmpRoutingAlwaysResolved(routeType, requestedModel, resolvedModel, provider) ==
    [route_type      |-> routeType,
     requested_model |-> requestedModel,
     resolved_model  |-> resolvedModel,
     provider        |-> provider]

\* logAmpRouting(routeType, requestedModel, resolvedModel, provider, path):
\* the fields of the record it emits; resolved_model and provider only when set
logAmpRouting(routeType, requestedModel, resolvedModel, provider) ==
    [route_type      |-> routeType,
     requested_model |-> requestedModel,
     resolved_model  |-> IF resolvedModel # EmptyStr /\ resolvedModel # requestedModel
                         THEN resolvedModel ELSE EmptyStr,
     provider        |-> provider]

----------------------------------------------------------------------------
(* resolveMappedModel: the closure of WrapHandler *)

\* its return value "", nil, with what it consulted on the way
NoMapping(mapperQueries, providerQueries, target) ==
    [panic |-> FALSE, mappedModel |-> EmptyStr, mappedProviders |-> <<>>,
     target |-> target, mapperQueries |-> mapperQueries,
     providerQueries |-> providerQueries]

\* a method call through a nil or half-written interface value
MapperPanic(mapperQueries) ==
    [panic |-> TRUE, mappedModel |-> EmptyStr, mappedProviders |-> <<>>,
     target |-> EmptyStr, mapperQueries |-> mapperQueries,
     providerQueries |-> <<>>]

\* the request's suffix is appended even to a target that has its own
ReattachSuffixAlways(target, thinkingSuffix) == target \o thinkingSuffix

\* lines 198-205: the request's suffix is kept unless the target has its own
ReattachSuffix(target, thinkingSuffix) ==
    IF thinkingSuffix # EmptyStr /\ ~ParseSuffix(target).HasSuffix
    THEN target \o thinkingSuffix
    ELSE target

\* the mapped model is returned without the check that it has providers
WithProvidersUnchecked(mappedModel, reg) ==
    LET mappedBaseModel == ParseSuffix(mappedModel).ModelName
    IN  [mappedModel |-> mappedModel,
         mappedProviders |-> GetProviderName(reg, mappedBaseModel),
         query |-> mappedBaseModel]

\* lines 207-214: the providers of the mapped model's base name; a mapped
\* model without providers is returned as "", nil
WithProviders(mappedModel, reg) ==
    LET mappedBaseModel == ParseSuffix(mappedModel).ModelName
        mappedProviders == GetProviderName(reg, mappedBaseModel)
    IN  IF Len(mappedProviders) = 0
        THEN [mappedModel |-> EmptyStr, mappedProviders |-> <<>>,
              query |-> mappedBaseModel]
        ELSE [mappedModel |-> mappedModel, mappedProviders |-> mappedProviders,
              query |-> mappedBaseModel]

\* the mapping of the normalized name is never consulted
LookedUpVerbatimOnly(first, byBase) == first

\* lines 187-191: the mapping of the name as typed, else the one of the
\* normalized name
LookedUp(first, byBase) == IF first = EmptyStr THEN byBase ELSE first

\* m1, m2, m3: fh.modelMapper as read by the nil check, by the lookup of the
\* name as typed and by the lookup of the normalized name
resolveMappedModel(m1, m2, m3, reg, modelName, normalizedModel, thinkingSuffix) ==
    IF IsNilInterface(m1) THEN NoMapping(<<>>, <<>>, EmptyStr)
    ELSE IF ~Callable(m2) THEN MapperPanic(<<>>)
    ELSE
      LET first == MapModel(m2, modelName)
      IN  IF first = EmptyStr /\ ~Callable(m3) THEN MapperPanic(<<modelName>>)
          ELSE
            LET looked  == LookedUp(first, MapModel(m3, normalizedModel))
                queries == IF first = EmptyStr
                           THEN <<modelName, normalizedModel>> ELSE <<modelName>>
                target  == TrimSpace(looked)
            IN  IF target = EmptyStr THEN NoMapping(queries, <<>>, EmptyStr)
                ELSE
                  LET found == WithProviders(ReattachSuffix(target, thinkingSuffix), reg)
                  IN  [panic |-> FALSE, mappedModel |-> found.mappedModel,
                       mappedProviders |-> found.mappedProviders, target |-> target,
                       mapperQueries |-> queries,
                       providerQueries |-> <<found.query>>]

----------------------------------------------------------------------------
(* FallbackHandler.WrapHandler *)

\* the effects of a request before anything happened
NoEffects(req) ==
    [req |-> req, served |-> FALSE, exit |-> "return", classified |-> FALSE, routeType |-> "NONE",
     modelName |-> EmptyStr, normalizedModel |-> EmptyStr,
     thinkingSuffix |-> EmptyStr, resolvedModel |-> EmptyStr,
     usedMapping |-> FALSE, providers |-> <<>>, target |-> EmptyStr,
     body |-> req.body, bodyRestored |-> FALSE, header |-> req.header,
     ctxSet |-> FALSE, ctxMapped |-> EmptyStr,
     wrapped |-> FALSE, rewriterModel |-> EmptyStr, flushes |-> 0,
     handlerCalls |-> 0, proxyCalls |-> 0, getProxyCalls |-> 0,
     forceReads |-> 0, resolveCalls |-> 0, rewrites |-> 0,
     mapperQueries |-> <<>>, providerQueries |-> <<>>, logs |-> <<>>]

\* the handler is entered a second time after it returned
CallHandlerTwice(o) ==
    [o EXCEPT !.handlerCalls = @ + 2,
              !.exit = IF o.req.handlerPanics THEN "panic" ELSE "return"]

\* handler(c): the downstream handler runs once and returns or panics
CallHandler(o) ==
    [o EXCEPT !.handlerCalls = @ + 1,
              !.exit = IF o.req.handlerPanics THEN "panic" ELSE "return"]

\* the mapping is applied without c.Set(MappedModelContextKey, mappedModel)
ApplyMappingNoContext(o, rm) ==
    [o EXCEPT !.body = rewriteModelInRequest(o.body, rm.mappedModel),
              !.rewrites = @ + 1,
              !.resolvedModel = rm.mappedModel,
              !.usedMapping = TRUE,
              !.providers = rm.mappedProviders]

\* lines 228-237 and 249-258: a usable mapping was found
ApplyMapping(o, rm) ==
    [o EXCEPT !.body = rewriteModelInRequest(o.body, rm.mappedModel),
              !.rewrites = @ + 1,
              !.ctxSet = TRUE, !.ctxMapped = rm.mappedModel,
              !.resolvedModel = rm.mappedModel,
              !.usedMapping = TRUE,
              !.providers = rm.mappedProviders]

\* the flag is never honoured: local providers always come first
ForceMappingsIgnored(flag) == FALSE

\* line 223: forceMappings := fh.forceModelMappings != nil && fh.forceModelMappings()
ForceMappings(flag) == flag

\* an attempted mapping that proved unusable ends the search
ForceFallthroughSkipped(o, local) == o

\* lines 238-242: in force mode, the local providers after a mapping that
\* was absent or unusable
ForceFallthrough(o, local) ==
    [o EXCEPT !.providers = local,
              !.providerQueries = @ \o <<o.normalizedModel>>]

\* lines 222-260: the provider lookup and the mapping, in the order the
\* force flag selects
Classify(o, rm, forceFlag, reg) ==
    LET local == GetProviderName(reg, o.normalizedModel)
    IN  IF ForceMappings(forceFlag)
        THEN LET o1 == [o EXCEPT !.resolveCalls = @ + 1,
                                 !.mapperQueries = rm.mapperQueries,
                                 !.providerQueries = rm.providerQueries,
                                 !.target = rm.target]
             IN  IF rm.mappedModel # EmptyStr
                 THEN ApplyMapping(o1, rm)
                 ELSE ForceFallthrough(o1, local)
        ELSE LET o1 == [o EXCEPT !.providers = local,
                                 !.providerQueries = <<o.normalizedModel>>]
             IN  IF Len(local) = 0
                 THEN LET o2 == [o1 EXCEPT !.resolveCalls = @ + 1,
                                           !.mapperQueries = rm.mapperQueries,
                                           !.providerQueries = @ \o rm.providerQueries,
                                           !.target = rm.target]
                      IN  IF rm.mappedModel # EmptyStr
                          THEN ApplyMapping(o2, rm) ELSE o2
                 ELSE o1

\* the local branch is taken without the check that providers exist
RouteOfLocalUnchecked(providers, usedMapping, px) ==
    IF Len(providers) = 0 /\ px # "nil" THEN RouteTypeAmpCredits
    ELSE IF usedMapping THEN RouteTypeModelMapping
    ELSE RouteTypeLocalProvider

\* the request is forwarded without the check that a proxy exists
RouteOfProxyUnchecked(providers, usedMapping, px) ==
    IF Len(providers) = 0 THEN RouteTypeAmpCredits
    ELSE IF usedMapping THEN RouteTypeModelMapping
    ELSE RouteTypeLocalProvider

\* lines 263-311: the branch that serves a classified request
RouteOf(providers, usedMapping, px) ==
    IF Len(providers) = 0 /\ px # "nil" THEN RouteTypeAmpCredits
    ELSE IF usedMapping THEN RouteTypeModelMapping
    ELSE IF Len(providers) > 0 THEN RouteTypeLocalProvider
    ELSE RouteTypeNoProvider

\* the header is filtered on every route
SanitizedHeaderEverywhere(route, header) == filterAntropicBetaHeader(header)

\* lines 295 and 304: filterAntropicBetaHeader(c) on the two local branches
SanitizedHeader(route, header) ==
    IF route \in {RouteTypeModelMapping, RouteTypeLocalProvider}
    THEN filterAntropicBetaHeader(header)
    ELSE header

\* lines 297-298: handler(c) and then rewriter.Flush(), inside the wrapper
CallWrappedHandler(o) ==
    LET o1 == CallHandler(o)
    IN  IF o1.exit = "panic" THEN o1 ELSE [o1 EXCEPT !.flushes = @ + 1]

\* lines 263-265: getProxy() is called when no provider was found
ConsultProxy(o) ==
    IF Len(o.providers) = 0 THEN [o EXCEPT !.getProxyCalls = @ + 1] ELSE o

\* the response is translated back to the normalized base name
RewriterTargetNormalized(modelName, normalizedModel, resolvedModel) == normalizedModel

\* line 292: NewResponseRewriter(c.Writer, modelName)
RewriterTarget(modelName, normalizedModel, resolvedModel) == modelName

\* lines 262-311: the dispatch of a classified request
Dispatch(o, px) ==
    LET providerName == IF Len(o.providers) > 0 THEN o.providers[1] ELSE NoProviderName
        route == RouteOf(o.providers, o.usedMapping, px)
        o1 == ConsultProxy(o)
        \* line 278: reached whenever no provider and no proxy was found
        o2 == IF Len(o.providers) = 0 /\ px = "nil"
              THEN [o1 EXCEPT !.logs = Append(@, logAmpRouting(RouteTypeNoProvider,
                                           o.modelName, EmptyStr, NoProviderName))]
              ELSE o1
        o3 == [o2 EXCEPT !.routeType = route,
                         !.header = SanitizedHeader(route, o.header)]
    IN  IF route = RouteTypeAmpCredits
        THEN [o3 EXCEPT !.logs = Append(@, logAmpRouting(RouteTypeAmpCredits,
                                           o.modelName, EmptyStr, NoProviderName)),
                        !.proxyCalls = @ + 1]
        ELSE IF route = RouteTypeModelMapping
        THEN CallWrappedHandler(
                 [o3 EXCEPT !.logs = Append(@, logAmpRouting(RouteTypeModelMapping,
                                       o.modelName, o.resolvedModel, providerName)),
                            !.wrapped = TRUE,
                            !.rewriterModel = RewriterTarget(o.modelName,
                                                  o.normalizedModel, o.resolvedModel)])
        ELSE IF route = RouteTypeLocalProvider
        THEN CallHandler(
                 [o3 EXCEPT !.logs = Append(@, logAmpRouting(RouteTypeLocalProvider,
                                       o.modelName, o.resolvedModel, providerName))])
        ELSE CallHandler(o3)

\* the bypass treats the request as one it serves locally
BypassSanitizing(o) ==
    CallHandler([o EXCEPT !.header = filterAntropicBetaHeader(o.header)])

\* lines 164-168: no model was extracted, handler(c) and nothing else
Bypass(o) == CallHandler(o)

\* the handler WrapHandler returns, applied to one request; m1, m2, m3 are
\* the values of fh.modelMapper its three reads see
WrapHandler(req, m1, m2, m3, forceFlag, px, reg) ==
    IF req.readErr THEN CallHandler([NoEffects(req) EXCEPT !.served = TRUE])
    ELSE
      LET modelName == extractModelFromRequest(req.body, req.hint.action, req.hint.path)
          restored  == [NoEffects(req) EXCEPT !.served = TRUE, !.bodyRestored = TRUE]
      IN  IF modelName = EmptyStr THEN Bypass(restored)
          ELSE
            LET suffixResult    == ParseSuffix(modelName)
                normalizedModel == suffixResult.ModelName
                thinkingSuffix  == IF suffixResult.HasSuffix
                                   THEN <<"(">> \o suffixResult.RawSuffix \o <<")">>
                                   ELSE EmptyStr
                rm == resolveMappedModel(m1, m2, m3, reg, modelName,
                                         normalizedModel, thinkingSuffix)
                o0 == [restored EXCEPT !.modelName = modelName,
                                       !.normalizedModel = normalizedModel,
                                       !.thinkingSuffix = thinkingSuffix,
                                       !.resolvedModel = normalizedModel,
                                       !.forceReads = 1]
                o1 == Classify(o0, rm, forceFlag, reg)
            IN  IF o1.resolveCalls > 0 /\ rm.panic
                THEN [o1 EXCEPT !.exit = "panic"]
                ELSE Dispatch([o1 EXCEPT !.classified = TRUE], px)

----------------------------------------------------------------------------
(* augplus.Module: its fields after New() *)

Callers == 1..NumCallers

Configs == 1..NumConfigs

\* a nil *config.Config
NilConfig == 0

\* the value of mu while no caller holds the lock
NoHolder == 0

\* a caller that is in neither method
NoCall == [op |-> "none", arg |-> NilConfig, pc |-> "idle", ret |-> "none"]

\* New(): &Module{}
AugInit ==
    /\ mu = NoHolder
    /\ cfg = NilConfig
    /\ registered = FALSE
    /\ routes = 0
    /\ calls = [t \in Callers |-> NoCall]

----------------------------------------------------------------------------
(* State machine: requests one at a time *)

\* no request is being handled and no store to fh.modelMapper is under way
NoStore == [active |-> FALSE, value |-> NilMapper, rest |-> "typ"]

Quiet == pc = "idle" /\ ~store.active

Init ==
    /\ modelMapper \in MapperValues
    /\ forceMappings \in BOOLEAN
    /\ proxy \in {"nil", "proxy"}
    /\ registry \in Registries
    /\ out = NoEffects(NoRequest)
    /\ pc = "idle"
    /\ inflight = NoRequest
    /\ reads = <<>>
    /\ store = NoStore
    /\ AugInit

\* one request through the wrapped handler, with no concurrent update
HandleRequest(req) ==
    /\ Quiet
    /\ out' = WrapHandler(req, modelMapper, modelMapper, modelMapper,
                          forceMappings, proxy, registry)
    /\ pc' = "done"
    /\ UNCHANGED <<modelMapper, forceMappings, proxy, registry, inflight, reads, store>>
    /\ UNCHANGED augVars

\* the request is over: gin drops its context and everything made for it
Complete ==
    /\ pc = "done"
    /\ pc' = "idle"
    /\ out' = NoEffects(NoRequest)
    /\ inflight' = NoRequest
    /\ reads' = <<>>
    /\ UNCHANGED <<modelMapper, forceMappings, proxy, registry, store>>
    /\ UNCHANGED augVars

\* FallbackHandler.SetModelMapper(mapper), between requests
SetModelMapper(mapper) ==
    /\ Quiet
    /\ modelMapper' = mapper
    /\ UNCHANGED <<forceMappings, proxy, registry, out, pc, inflight, reads, store>>
    /\ UNCHANGED augVars

\* the configuration behind forceModelMappings() changes
SetForceModelMappings(b) ==
    /\ Quiet
    /\ forceMappings' = b
    /\ UNCHANGED <<modelMapper, proxy, registry, out, pc, inflight, reads, store>>
    /\ UNCHANGED augVars

\* the proxy behind getProxy() is created or dropped
SetProxy(p) ==
    /\ Quiet
    /\ proxy' = p
    /\ UNCHANGED <<modelMapper, forceMappings, registry, out, pc, inflight, reads, store>>
    /\ UNCHANGED augVars

\* the provider registry behind util.GetProviderName changes
UpdateRegistry(reg) ==
    /\ Quiet
    /\ registry' = reg
    /\ UNCHANGED <<modelMapper, forceMappings, proxy, out, pc, inflight, reads, store>>
    /\ UNCHANGED augVars

Next ==
    \/ \E req \in Requests : HandleRequest(req)
    \/ Complete
    \/ \E mapper \in MapperValues : SetModelMapper(mapper)
    \/ \E b \in BOOLEAN : SetForceModelMappings(b)
    \/ \E p \in {"nil", "proxy"} : SetProxy(p)
    \/ \E reg \in Registries : UpdateRegistry(reg)

Spec == Init /\ [][Next]_vars

----------------------------------------------------------------------------
(* State machine: a request concurrent with SetModelMapper.  The handler     *)
(* takes no lock, so each of its reads of fh.modelMapper is a step of its    *)
(* own, and the store of the two-word interface value by SetModelMapper is   *)
(* two steps in either order.                                               *)

InitRace ==
    /\ modelMapper \in RaceMappers
    /\ forceMappings \in BOOLEAN
    /\ proxy \in {"nil", "proxy"}
    /\ registry \in Registries
    /\ out = NoEffects(NoRequest)
    /\ pc = "idle"
    /\ inflight = NoRequest
    /\ reads = <<>>
    /\ store = NoStore
    /\ AugInit

\* the i-th read of fh.modelMapper by the in-flight request
ReadAt(i) == IF i <= Len(reads) THEN reads[i] ELSE NilMapper

\* lines 225-249: whether the request calls resolveMappedModel
CallsResolve(req) ==
    LET modelName == extractModelFromRequest(req.body, req.hint.action, req.hint.path)
    IN  /\ ~req.readErr
        /\ modelName # EmptyStr
        /\ \/ ForceMappings(forceMappings)
           \/ Len(GetProviderName(registry, ParseSuffix(modelName).ModelName)) = 0

\* lines 147-180: the request arrives and runs up to resolveMappedModel
RaceBegin(req) ==
    /\ pc = "idle"
    /\ inflight' = req
    /\ reads' = <<>>
    /\ pc' = IF CallsResolve(req) THEN "nilcheck" ELSE "finish"
    /\ UNCHANGED <<modelMapper, forceMappings, proxy, registry, out, store>>
    /\ UNCHANGED augVars

\* line 182: if fh.modelMapper == nil
RaceNilCheck ==
    /\ pc = "nilcheck"
    /\ reads' = Append(reads, modelMapper)
    /\ pc' = IF IsNilInterface(modelMapper) THEN "finish" ELSE "raw"
    /\ UNCHANGED <<modelMapper, forceMappings, proxy, registry, out, inflight, store>>
    /\ UNCHANGED augVars

\* line 187: fh.modelMapper.MapModel(modelName)
RaceRawLookup ==
    /\ pc = "raw"
    /\ reads' = Append(reads, modelMapper)
    /\ pc' = IF /\ Callable(modelMapper)
                /\ MapModel(modelMapper,
                            extractModelFromRequest(inflight.body, inflight.hint.action,
                                                    inflight.hint.path)) = EmptyStr
             THEN "base" ELSE "finish"
    /\ UNCHANGED <<modelMapper, forceMappings, proxy, registry, out, inflight, store>>
    /\ UNCHANGED augVars

\* line 190: fh.modelMapper.MapModel(normalizedModel)
RaceBaseLookup ==
    /\ pc = "base"
    /\ reads' = Append(reads, modelMapper)
    /\ pc' = "finish"
    /\ UNCHANGED <<modelMapper, forceMappings, proxy, registry, out, inflight, store>>
    /\ UNCHANGED augVars

\* the rest of the handler, with the mapper values it read
RaceFinish ==
    /\ pc = "finish"
    /\ out' = WrapHandler(inflight, ReadAt(1), ReadAt(2), ReadAt(3),
                          forceMappings, proxy, registry)
    /\ pc' = "done"
    /\ UNCHANGED <<modelMapper, forceMappings, proxy, registry, inflight, reads, store>>
    /\ UNCHANGED augVars

\* line 138, first word: fh.modelMapper = mapper stores one word of the value
StoreFirstWord(mapper, word) ==
    /\ ~store.active
    /\ modelMapper' = [modelMapper EXCEPT ![word] = mapper[word]]
    /\ store' = [active |-> TRUE, value |-> mapper,
                 rest |-> IF word = "typ" THEN "ptr" ELSE "typ"]
    /\ UNCHANGED <<forceMappings, proxy, registry, out, pc, inflight, reads>>
    /\ UNCHANGED augVars

\* line 138, second word
StoreSecondWord ==
    /\ store.active
    /\ modelMapper' = [modelMapper EXCEPT ![store.rest] = store.value[store.rest]]
    /\ store' = NoStore
    /\ UNCHANGED <<forceMappings, proxy, registry, out, pc, inflight, reads>>
    /\ UNCHANGED augVars

NextRace ==
    \/ \E req \in RaceRequests : RaceBegin(req)
    \/ RaceNilCheck
    \/ RaceRawLookup
    \/ RaceBaseLookup
    \/ RaceFinish
    \/ Complete
    \/ \E mapper \in RaceMappers, word \in {"typ", "ptr"} : StoreFirstWord(mapper, word)
    \/ StoreSecondWord

SpecRace == InitRace /\ [][NextRace]_vars

----------------------------------------------------------------------------
(* State machine: concurrent callers of augplus Module.Register and          *)
(* Module.OnConfigUpdated.  Every statement of the two methods is a step of  *)
(* its caller; the deferred Unlock runs with the return.                     *)

InitAug ==
    /\ modelMapper = NilMapper
    /\ forceMappings = FALSE
    /\ proxy = "nil"
    /\ registry = [n \in BaseNames |-> <<>>]
    /\ out = NoEffects(NoRequest)
    /\ pc = "idle"
    /\ inflight = NoRequest
    /\ reads = <<>>
    /\ store = NoStore
    /\ AugInit

\* the lock is handed out although a caller holds it
MutexNeverHeld(holder) == TRUE

\* m.mu.Lock() returns once no caller holds the lock
MutexFree(holder) == holder = NoHolder

\* a caller enters Register(ctx) with ctx.Config = c
CallRegister(t, c) ==
    /\ calls[t].pc = "idle"
    /\ calls' = [calls EXCEPT ![t] = [op |-> "Register", arg |-> c,
                                      pc |-> "lock", ret |-> "none"]]
    /\ UNCHANGED <<mu, cfg, registered, routes>>
    /\ UNCHANGED ampVars

\* a caller enters OnConfigUpdated(c)
CallOnConfigUpdated(t, c) ==
    /\ calls[t].pc = "idle"
    /\ calls' = [calls EXCEPT ![t] = [op |-> "OnConfigUpdated", arg |-> c,
                                      pc |-> "lock", ret |-> "none"]]
    /\ UNCHANGED <<mu, cfg, registered, routes>>
    /\ UNCHANGED ampVars

\* lines 35 and 52: m.mu.Lock()
Lock(t) ==
    /\ calls[t].pc = "lock"
    /\ MutexFree(mu)
    /\ mu' = t
    /\ calls' = [calls EXCEPT ![t].pc = IF calls[t].op = "Register"
                                        THEN "check" ELSE "store"]
    /\ UNCHANGED <<cfg, registered, routes>>
    /\ UNCHANGED ampVars

\* lines 38-40: if m.registered { return nil }
RegisterCheck(t) ==
    /\ calls[t].pc = "check"
    /\ calls' = [calls EXCEPT ![t].pc = IF registered THEN "return" ELSE "setcfg"]
    /\ UNCHANGED <<mu, cfg, registered, routes>>
    /\ UNCHANGED ampVars

\* line 42: m.cfg = ctx.Config
RegisterSetCfg(t) ==
    /\ calls[t].pc = "setcfg"
    /\ cfg' = calls[t].arg
    /\ calls' = [calls EXCEPT ![t].pc = "routes"]
    /\ UNCHANGED <<mu, registered, routes>>
    /\ UNCHANGED ampVars

\* line 43: m.registerRoutes(ctx.Engine, ctx.BaseHandler)
RegisterRoutes(t) ==
    /\ calls[t].pc = "routes"
    /\ routes < MaxRegistrations
    /\ routes' = routes + 1
    /\ calls' = [calls EXCEPT ![t].pc = "setflag"]
    /\ UNCHANGED <<mu, cfg, registered>>
    /\ UNCHANGED ampVars

\* line 44: m.registered = true
RegisterSetFlag(t) ==
    /\ calls[t].pc = "setflag"
    /\ registered' = TRUE
    /\ calls' = [calls EXCEPT ![t].pc = "return"]
    /\ UNCHANGED <<mu, cfg, routes>>
    /\ UNCHANGED ampVars

\* line 54: m.cfg = cfg
OnConfigStore(t) ==
    /\ calls[t].pc = "store"
    /\ cfg' = calls[t].arg
    /\ calls' = [calls EXCEPT ![t].pc = "return"]
    /\ UNCHANGED <<mu, registered, routes>>
    /\ UNCHANGED ampVars

\* lines 39, 47 and 55: return nil, and the deferred m.mu.Unlock()
Return(t) ==
    /\ calls[t].pc = "return"
    /\ mu' = NoHolder
    /\ calls' = [calls EXCEPT ![t].pc = "idle", ![t].ret = "nil",
                              ![t].arg = NilConfig]
    /\ UNCHANGED <<cfg, registered, routes>>
    /\ UNCHANGED ampVars

NextAug ==
    \/ \E t \in Callers, c \in Configs : CallRegister(t, c)
    \/ \E t \in Callers, c \in Configs : CallOnConfigUpdated(t, c)
    \/ \E t \in Callers : Lock(t)
    \/ \E t \in Callers : RegisterCheck(t)
    \/ \E t \in Callers : RegisterSetCfg(t)
    \/ \E t \in Callers : RegisterRoutes(t)
    \/ \E t \in Callers : RegisterSetFlag(t)
    \/ \E t \in Callers : OnConfigStore(t)
    \/ \E t \in Callers : Return(t)

SpecAug == InitAug /\ [][NextAug]_vars

----------------------------------------------------------------------------
(* Properties.  In the state after a request (pc = "done") the configuration *)
(* is the one the request saw under Spec: modelMapper, forceMappings, proxy   *)
(* and registry change only between requests.  The predicates below restate   *)
(* the configuration in the claims' terms, from the mapper and the registry.  *)

Done == pc = "done"

\* the request was routed: a model was extracted and the handler got as far
\* as choosing a branch
Classified == pc = "done" /\ out.classified

\* the record logAmpRouting emitted last for the request
LastLog == out.logs[Len(out.logs)]

\* providers the registry holds for a name
Configured(model) == IF model \in DOMAIN registry THEN registry[model] ELSE <<>>

RequestedBase == ParseSuffix(out.modelName).ModelName

RequestHasSuffix == ParseSuffix(out.modelName).HasSuffix

\* the request's suffix with its parentheses
RequestSuffix == <<"(">> \o ParseSuffix(out.modelName).RawSuffix \o <<")">>

\* the mapping the mapper holds for the request: the one for the name as
\* typed, else the one for its base name; without surrounding spaces
SelectedTarget ==
    IF modelMapper.typ = "nil" \/ out.modelName = EmptyStr THEN EmptyStr
    ELSE LET typed == MapModel(modelMapper, out.modelName)
         IN  TrimSpace(IF typed # EmptyStr THEN typed
                       ELSE MapModel(modelMapper, RequestedBase))

TargetBase == ParseSuffix(SelectedTarget).ModelName

HasLocalProvider == Len(Configured(RequestedBase)) > 0

HasUsableMapping == SelectedTarget # EmptyStr /\ Len(Configured(TargetBase)) > 0

TargetUnreachable == SelectedTarget # EmptyStr /\ Len(Configured(TargetBase)) = 0

\* C1: a request whose model has both a local provider and a usable mapping
\* is classified ModelMapping when the force flag is set and LocalProvider
\* when it is not.
C1_ForceFlagFlipsPrecedence ==
    (Classified /\ HasLocalProvider /\ HasUsableMapping) =>
        out.routeType = IF forceMappings THEN RouteTypeModelMapping
                        ELSE RouteTypeLocalProvider

C1_Witness ==
    /\ Classified /\ HasLocalProvider /\ HasUsableMapping
    /\ forceMappings
    /\ out.routeType = RouteTypeModelMapping

\* C2: a mapping whose suffix-stripped target has no providers never yields
\* ModelMapping, in either mode: no mapping is used, the body is not
\* rewritten and the mapped-model context value is not set.
C2_UnreachableTargetNeverMapped ==
    (Done /\ TargetUnreachable) =>
        /\ out.routeType # RouteTypeModelMapping
        /\ ~out.usedMapping
        /\ out.rewrites = 0
        /\ out.body = out.req.body
        /\ ~out.ctxSet

C2_Witness ==
    /\ Classified /\ TargetUnreachable
    /\ forceMappings
    /\ out.resolveCalls = 1
    /\ out.routeType = RouteTypeLocalProvider

\* C3 as stated: the resolved model of the route is set and differs from the
\* requested model exactly when the outcome is ModelMapping.
C3_ResolvedDiffersIffMapping ==
    Classified =>
        (LastLog.resolved_model # EmptyStr <=> out.routeType = RouteTypeModelMapping)

\* C3 amended: the resolved model of the route is set and differs from the
\* requested model exactly when the outcome is ModelMapping with a mapped
\* model other than the requested name, or LocalProvider for a request that
\* carries a suffix (the resolved model is then the base name).
C3_ResolvedDiffersIffMappedOrNormalized ==
    Classified =>
        /\ LastLog.resolved_model # EmptyStr <=>
              \/ out.routeType = RouteTypeModelMapping /\ out.ctxMapped # out.modelName
              \/ out.routeType = RouteTypeLocalProvider /\ RequestHasSuffix
        /\ out.routeType = RouteTypeModelMapping =>
              out.resolvedModel = out.ctxMapped /\ out.ctxMapped # EmptyStr
        /\ (out.routeType = RouteTypeLocalProvider /\ RequestHasSuffix) =>
              LastLog.resolved_model = RequestedBase

C3_Witness ==
    /\ Classified
    /\ out.routeType = RouteTypeLocalProvider
    /\ RequestHasSuffix
    /\ LastLog.resolved_model = mA

\* C4: the provider list of a classified request is non-empty exactly on
\* LocalProvider and ModelMapping, and empty exactly on RemoteFallback and
\* NoProvider.
C4_ProvidersIffServedLocally ==
    Classified =>
        /\ Len(out.providers) > 0 <=>
              out.routeType \in {RouteTypeLocalProvider, RouteTypeModelMapping}
        /\ Len(out.providers) = 0 <=>
              out.routeType \in {RouteTypeAmpCredits, RouteTypeNoProvider}

C4_Witness ==
    /\ Classified /\ TargetUnreachable
    /\ out.resolveCalls = 1
    /\ out.providers = <<>>
    /\ out.routeType = RouteTypeNoProvider

\* C5: with no provider from the local lookup nor from the mapping, the
\* outcome is RemoteFallback when getProxy() returns a proxy and NoProvider
\* when it returns nil; getProxy() is not called when providers were found.
C5_TerminalFallback ==
    Classified =>
        /\ (~HasLocalProvider /\ ~HasUsableMapping) =>
              /\ out.routeType = IF proxy # "nil" THEN RouteTypeAmpCredits
                                 ELSE RouteTypeNoProvider
              /\ out.proxyCalls = IF proxy # "nil" THEN 1 ELSE 0
        /\ Len(out.providers) > 0 => (out.getProxyCalls = 0 /\ out.proxyCalls = 0)

C5_Witness ==
    /\ Classified /\ ~HasLocalProvider /\ ~HasUsableMapping
    /\ proxy = "nil"
    /\ out.getProxyCalls = 1
    /\ out.routeType = RouteTypeNoProvider

\* C6: the Anthropic-Beta filter runs only on LocalProvider and ModelMapping:
\* on every other path the headers that reach the proxy or the handler are
\* the headers the client sent.
C6_HeadersUntouchedOffLocalRoutes ==
    (Done /\ out.routeType \notin {RouteTypeLocalProvider, RouteTypeModelMapping}) =>
        out.header = out.req.header

C6_Witness ==
    /\ Done
    /\ out.routeType = RouteTypeAmpCredits
    /\ out.proxyCalls = 1
    /\ out.req.header = Header(<<DeniedFeature>>)
    /\ out.header = Header(<<DeniedFeature>>)

\* C7: on a ModelMapping route the response rewriter is flushed exactly once
\* on every exit of the downstream handler, a panic included.
C7_FlushedOnceOnEveryExit ==
    (Done /\ out.routeType = RouteTypeModelMapping) => out.flushes = 1

\* the three conventions of the extractor, each on its own
JsonCandidate(body) ==
    IF body.model.Exists /\ body.model.Type = "String" THEN body.model.Str ELSE EmptyStr

ActionCandidate(action) ==
    IF Index(action, <<":">>) = -1 THEN action
    ELSE SliceTo(action, Index(action, <<":">>))

PathCandidate(path) ==
    IF Index(path, ModelsMarker) = -1 THEN EmptyStr
    ELSE LET modelPart == SliceFrom(path, Index(path, ModelsMarker) + Len(ModelsMarker))
         IN  IF Index(modelPart, <<":">>) > 0
             THEN SliceTo(modelPart, Index(modelPart, <<":">>))
             ELSE EmptyStr

FirstNonEmpty(a, b, c) ==
    IF a # EmptyStr THEN a ELSE IF b # EmptyStr THEN b ELSE c

\* C8: the extractor returns the first non-empty result of the JSON "model"
\* field, the action hint and the path hint, in that order; an empty result
\* of one convention does not stop the search.
C8_FirstNonEmptyConventionWins ==
    (Done /\ ~out.req.readErr) =>
        out.modelName = FirstNonEmpty(JsonCandidate(out.req.body),
                                      ActionCandidate(out.req.hint.action),
                                      PathCandidate(out.req.hint.path))

\* the provider query made by resolveMappedModel for the request
MappingQuery ==
    IF forceMappings THEN out.providerQueries[1] ELSE out.providerQueries[2]

\* the target with the request's suffix, unless the target has its own
Reassembled ==
    IF RequestHasSuffix /\ ~ParseSuffix(SelectedTarget).HasSuffix
    THEN SelectedTarget \o RequestSuffix
    ELSE SelectedTarget

\* C9: the resolved model is the target with the request's suffix appended
\* when the request has one and the target has none, and the target itself
\* otherwise; providers are queried on the suffix-stripped base name of it.
C9_SuffixCarriedToTarget ==
    /\ (Classified /\ out.usedMapping) =>
          /\ out.resolvedModel = Reassembled
          /\ out.ctxMapped = Reassembled
    /\ (Classified /\ out.resolveCalls = 1 /\ SelectedTarget # EmptyStr) =>
          /\ MappingQuery = ParseSuffix(Reassembled).ModelName
          /\ ~ParseSuffix(MappingQuery).HasSuffix

C9_Witness ==
    /\ Classified /\ out.usedMapping
    /\ RequestHasSuffix
    /\ SelectedTarget = mB
    /\ out.resolvedModel = <<"b", "(", "h", ")">>
    /\ MappingQuery = mB

\* C10: a request concurrent with SetModelMapper sees one mapper: its nil
\* check and its two lookups read the same value, and each read sees a
\* completely stored value, never one word of the old mapper with one word
\* of the new.
C10_RequestSeesOneMapper ==
    /\ \A i, j \in 1..Len(reads) : reads[i] = reads[j]
    /\ \A i \in 1..Len(reads) : reads[i] \in MapperValues

\* the route on which the handler of this process serves the request
ServedLocally ==
    Done /\ out.routeType \in {RouteTypeLocalProvider, RouteTypeModelMapping}

\* the tokens of the request's header other than the denylisted one, in order
AllowedTokens == SelectSeq(out.req.header.items, LAMBDA f : f # DeniedFeature)

NoModelExtracted ==
    /\ Done /\ ~out.req.readErr
    /\ extractModelFromRequest(out.req.body, out.req.hint.action,
                               out.req.hint.path) = EmptyStr

\* C12: when no model can be extracted the handler is invoked with the
\* original body and headers, and no provider lookup, mapper lookup, proxy
\* lookup, context value, header change or writer wrapping occurs.
C12_NoModelBypass ==
    NoModelExtracted =>
        /\ out.handlerCalls = 1 /\ out.proxyCalls = 0
        /\ out.body = out.req.body /\ out.bodyRestored /\ out.rewrites = 0
        /\ out.header = out.req.header
        /\ out.providerQueries = <<>>
        /\ out.mapperQueries = <<>> /\ out.resolveCalls = 0
        /\ out.getProxyCalls = 0
        /\ ~out.ctxSet
        /\ ~out.wrapped /\ out.flushes = 0
        /\ ~out.classified /\ out.logs = <<>>

C12_Witness ==
    /\ NoModelExtracted
    /\ out.req.body = JsonBody(NumField)
    /\ out.req.hint.path = pathNone
    /\ out.req.header = Header(<<DeniedFeature>>)
    /\ out.header = Header(<<DeniedFeature>>)
    /\ out.handlerCalls = 1

\* the body could not be read, or was read and is not well-formed JSON
BodyUnusable == Done /\ (out.req.readErr \/ ~out.req.body.valid)

\* C13: when the body is unreadable or is not parseable JSON, routing is
\* skipped whatever the action and path hints say: no model is extracted and
\* the handler receives the original body, restored and unmodified, also
\* after a read error.
C13_UnusableBodySkipsRouting ==
    BodyUnusable =>
        /\ out.modelName = EmptyStr
        /\ ~out.classified
        /\ out.handlerCalls = 1
        /\ out.bodyRestored
        /\ out.body = out.req.body

\* what the same request gives under the same configuration in default mode
InDefaultMode ==
    WrapHandler(out.req, modelMapper, modelMapper, modelMapper, FALSE, proxy, registry)

\* C14: in force mode, when the mapping is absent or its target has no
\* providers, the local providers of the normalized base name are looked up
\* afterwards, and the outcome is the one of default mode: LocalProvider if
\* providers exist, else RemoteFallback or NoProvider.
C14_ForceModeFallsThrough ==
    (Classified /\ forceMappings /\ ~HasUsableMapping) =>
        /\ out.resolveCalls = 1
        /\ Len(out.providerQueries) = IF SelectedTarget # EmptyStr THEN 2 ELSE 1
        /\ out.providerQueries[Len(out.providerQueries)] = RequestedBase
        /\ out.providers = Configured(RequestedBase)
        /\ out.routeType = IF HasLocalProvider THEN RouteTypeLocalProvider
                           ELSE IF proxy # "nil" THEN RouteTypeAmpCredits
                           ELSE RouteTypeNoProvider
        /\ out.routeType = InDefaultMode.routeType
        /\ out.providers = InDefaultMode.providers
        /\ out.body = InDefaultMode.body
        /\ out.header = InDefaultMode.header

C14_Witness ==
    /\ Classified /\ forceMappings /\ TargetUnreachable
    /\ HasLocalProvider
    /\ out.providerQueries = <<mB, mA>>
    /\ out.routeType = RouteTypeLocalProvider

BodyWithResolvedModel == [out.req.body EXCEPT !.model = StrField(out.resolvedModel)]

MappedWithModelField ==
    Classified /\ out.routeType = RouteTypeModelMapping /\ out.req.body.model.Exists

\* C16: the delivered body differs from the client's only on ModelMapping
\* with a body that has a "model" field, and then only that field changes
\* and equals the resolved model; on the other three outcomes and on
\* ModelMapping without the field the bytes are the original ones.  (A field
\* sjson can set is set; a body sjson rejects is delivered as it was sent.)
C16_BodyRewrittenOnlyOnMapping ==
    Classified =>
        /\ out.body # out.req.body =>
              (MappedWithModelField /\ out.body = BodyWithResolvedModel)
        /\ (MappedWithModelField /\ ~out.req.body.setFails) =>
              out.body = BodyWithResolvedModel
        /\ out.routeType # RouteTypeModelMapping => out.body = out.req.body
        /\ (out.routeType = RouteTypeModelMapping /\ ~out.req.body.model.Exists) =>
              out.body = out.req.body

C16_Witness ==
    /\ MappedWithModelField
    /\ out.req.body = JsonBody(StrField(mAh))
    /\ out.body = JsonBody(StrField(<<"b", "(", "h", ")">>))
    /\ out.rewrites = 1

\* C17: the translating response writer is installed exactly when the
\* outcome is ModelMapping, and the mapped-model context value is set
\* exactly when the outcome is ModelMapping; on every other path the handler
\* or the proxy writes to the original writer.
C17_WriterAndContextIffMapping ==
    Done =>
        /\ out.wrapped <=> out.routeType = RouteTypeModelMapping
        /\ out.ctxSet <=> out.routeType = RouteTypeModelMapping
        /\ out.ctxSet => out.ctxMapped = out.resolvedModel
        /\ ~out.wrapped => (out.rewriterModel = EmptyStr /\ out.flushes = 0)

C17_Witness ==
    /\ Done
    /\ out.routeType = RouteTypeModelMapping
    /\ out.wrapped /\ out.ctxSet
    /\ out.ctxMapped = mB
    /\ out.handlerCalls = 1

\* the model name as the client typed it, by the first convention that has one
RequestedAsTyped ==
    FirstNonEmpty(JsonCandidate(out.req.body),
                  ActionCandidate(out.req.hint.action),
                  PathCandidate(out.req.hint.path))

\* the request a(h) in default mode under the mapping a -> b
SuffixedRequestMappedByBase ==
    /\ Done /\ out.routeType = RouteTypeModelMapping
    /\ out.req.body = JsonBody(StrField(mAh))
    /\ ~forceMappings
    /\ modelMapper = Mapper(1)

\* C18: on ModelMapping the response is translated back to the name exactly
\* as the client requested it, suffix included, not to the base name and not
\* to the resolved model; for a(h) mapped by a -> b in default mode the
\* outbound body carries b(h) and the rewriter's target is a(h).
C18_ResponseNamedAsRequested ==
    /\ (Done /\ out.routeType = RouteTypeModelMapping) =>
          /\ out.wrapped
          /\ out.rewriterModel = RequestedAsTyped
    /\ SuffixedRequestMappedByBase =>
          /\ out.body = JsonBody(StrField(<<"b", "(", "h", ")">>))
          /\ out.rewriterModel = mAh

C18_Witness ==
    /\ SuffixedRequestMappedByBase
    /\ out.body.model.Str = <<"b", "(", "h", ")">>
    /\ out.rewriterModel = <<"a", "(", "h", ")">>
    /\ out.normalizedModel = mA

\* what the mapper holds for the name as typed and for its base name
VerbatimMapping == MapModel(modelMapper, out.modelName)

BaseMapping == MapModel(modelMapper, RequestedBase)

\* the request consulted a mapper
MapperConsulted == Classified /\ out.resolveCalls = 1 /\ modelMapper.typ # "nil"

\* C19: the resolver looks up the name as typed first and uses the mapping
\* of the normalized base name whenever that lookup returns none; a mapping
\* of the name as typed takes precedence over one of the base name; a mapped
\* value that is empty or only whitespace counts as no mapping.
C19_VerbatimThenBase ==
    MapperConsulted =>
        /\ out.mapperQueries[1] = out.modelName
        /\ VerbatimMapping = EmptyStr =>
              /\ out.mapperQueries = <<out.modelName, RequestedBase>>
              /\ out.target = TrimSpace(BaseMapping)
        /\ VerbatimMapping # EmptyStr =>
              /\ out.mapperQueries = <<out.modelName>>
              /\ out.target = TrimSpace(VerbatimMapping)
        /\ out.target = EmptyStr =>
              /\ ~out.usedMapping /\ ~out.ctxSet /\ out.rewrites = 0
              /\ \A i \in 1..Len(out.providerQueries) :
                    out.providerQueries[i] = RequestedBase
              /\ out.routeType # RouteTypeModelMapping

C19_Witness ==
    /\ MapperConsulted
    /\ out.modelName = mAh
    /\ VerbatimMapping = EmptyStr /\ BaseMapping = mB
    /\ out.mapperQueries = <<mAh, mA>>
    /\ out.target = mB
    /\ out.usedMapping

\* a caller whose Register call got past the lock, or returned
RegisterRan(t) ==
    calls[t].op = "Register" /\ calls[t].pc \in {"return", "idle"}

\* holds in every state: the routes are registered at most once, and exactly
\* once as soon as a Register call has run; every call returns nil
RegisteredOnce ==
    /\ routes <= 1
    /\ registered => routes = 1
    /\ \A t \in Callers : RegisterRan(t) => (registered /\ routes = 1)
    /\ \A t \in Callers :
          (calls[t].pc = "idle" /\ calls[t].op # "none") => calls[t].ret = "nil"

\* holds of every step: registered never returns to false
RegisteredStays == registered => registered'

\* holds of every step: a step of a Register call made after the routes were
\* registered leaves cfg alone; cfg is replaced only by the first Register
\* and by OnConfigUpdated
ConfigKept ==
    /\ \A t \in Callers :
          (calls[t].op = "Register" /\ calls'[t] # calls[t]
             /\ (registered \/ routes > 0)) => cfg' = cfg
    /\ cfg' # cfg =>
          \E t \in Callers :
              /\ calls'[t] # calls[t]
              /\ \/ calls[t].op = "OnConfigUpdated" /\ calls[t].pc = "store"
                 \/ calls[t].op = "Register" /\ ~registered /\ routes = 0

\* C20: Register is idempotent under any interleaving of Register and
\* OnConfigUpdated calls: the routes are registered exactly once, registered
\* never returns to false, every Register returns nil, and a Register after
\* the first leaves the stored config unchanged.
C20_RegisterIdempotent ==
    /\ []RegisteredOnce
    /\ [][RegisteredStays /\ ConfigKept]_vars

\* a second Register, called with another config, is about to return while
\* the config is still the one stored before it
C20_Witness ==
    \E t \in Callers :
        /\ calls[t].op = "Register" /\ calls[t].pc = "return"
        /\ mu = t
        /\ registered /\ routes = 1
        /\ cfg # calls[t].arg

====
